---- MODULE Spec2Model ----
(***************************************************************************)
(* Timetable-Sync-Pro (src/app.py): the next-occurrence resolver, the      *)
(* iCalendar generator and the Flask session routes.                       *)
(*                                                                         *)
(* Text is a sequence of one-character strings, so that split, int, lower  *)
(* and replace are computed character by character as Python computes     *)
(* them.  A date-time is a record of its calendar fields, with the         *)
(* proleptic Gregorian calendar of Python's datetime.                      *)
(***************************************************************************)
EXTENDS Integers, Sequences, FiniteSets, TLC

VARIABLES
    now,            \* the local wall clock, what datetime.now() returns
    utcnow,         \* the UTC wall clock, what datetime.utcnow() returns
    item,           \* argument of get_next_occurrence_date
    is_start,       \* argument of get_next_occurrence_date
    occurrence,     \* outcome of the last get_next_occurrence_date call
    timetable_data, \* argument of generate_ics_content
    ics,            \* outcome of the last generate_ics_content call
    session,        \* the Flask session of one visitor
    response        \* the answer to the last request of that session

vars == <<now, utcnow, item, is_start, occurrence, timetable_data, ics,
          session, response>>

-----------------------------------------------------------------------------
(* Bounds of the model. *)

\* number of consecutive days, from BaseDate on, the clock is drawn from
NowDays == 7

\* longest entry list handed to generate_ics_content
MaxEntries == 2

\* longest entry list a request body or an extraction answer carries
MaxPayload == 2

-----------------------------------------------------------------------------
(* Text *)

\* Body(value), with `value` computed once.  (A LET definition or an operator
\* argument is computed again at each use.)
Bind(value, Body(_)) == CHOOSE r \in { Body(v) : v \in {value} } : TRUE

UpperLetters == <<"A", "B", "C", "D", "E", "F", "G", "H", "I", "J", "K", "L", "M",
                  "N", "O", "P", "Q", "R", "S", "T", "U", "V", "W", "X", "Y", "Z">>

LowerLetters == <<"a", "b", "c", "d", "e", "f", "g", "h", "i", "j", "k", "l", "m",
                  "n", "o", "p", "q", "r", "s", "t", "u", "v", "w", "x", "y", "z">>

DigitChars == <<"0", "1", "2", "3", "4", "5", "6", "7", "8", "9">>

IsDigit(c) == \E i \in 1..10 : DigitChars[i] = c

DigitVal(c) == (CHOOSE i \in 1..10 : DigitChars[i] = c) - 1

\* str.lower(), one character
LowerChar(c) ==
    IF \E i \in 1..26 : UpperLetters[i] = c
    THEN LowerLetters[CHOOSE i \in 1..26 : UpperLetters[i] = c]
    ELSE c

\* str.lower()
Lower(s) == [i \in 1..Len(s) |-> LowerChar(s[i])]

\* the position of the first sep in s, 0 when there is none
FirstIndex(s, sep) ==
    IF \E i \in 1..Len(s) : s[i] = sep
    THEN CHOOSE i \in 1..Len(s) : s[i] = sep /\ \A j \in 1..(i - 1) : s[j] # sep
    ELSE 0

\* str.split(sep) for a one-character sep: the fields between the separators
RECURSIVE Split(_, _)
Split(s, sep) ==
    Bind(FirstIndex(s, sep), LAMBDA i :
        IF i = 0 THEN <<s>>
        ELSE <<SubSeq(s, 1, i - 1)>>
             \o Bind(SubSeq(s, i + 1, Len(s)), LAMBDA rest : Split(rest, sep)))

\* str.strip() of blanks, as int() applies it to its argument
Strip(s) ==
    LET kept == {i \in 1..Len(s) : s[i] # " "}
    IN  IF kept = {} THEN <<>>
        ELSE SubSeq(s, CHOOSE i \in kept : \A j \in kept : i <= j,
                       CHOOSE i \in kept : \A j \in kept : j <= i)

\* the value of the first n characters of s, all decimal digits
RECURSIVE DecimalPrefix(_, _)
DecimalPrefix(s, n) ==
    IF n = 0 THEN 0 ELSE 10 * DecimalPrefix(s, n - 1) + DigitVal(s[n])

DecimalValue(s) == DecimalPrefix(s, Len(s))

\* int(text): blanks around the literal and one leading "+" are accepted, the
\* rest must be one or more decimal digits; anything else is a ValueError.
\* (A leading "-" never reaches int here: the text was split on "-".)
PyInt(text) ==
    Bind(Strip(text), LAMBDA t :
        LET u == IF t # <<>> /\ Head(t) = "+" THEN Tail(t) ELSE t
        IN  IF u # <<>> /\ \A i \in 1..Len(u) : IsDigit(u[i])
            THEN [ok |-> TRUE, val |-> DecimalValue(u)]
            ELSE [ok |-> FALSE, val |-> 0])

\* str.replace(',', r'\,')
RECURSIVE EscapeCommasFrom(_, _)
EscapeCommasFrom(s, i) ==
    IF i > Len(s) THEN <<>>
    ELSE (IF s[i] = "," THEN <<"\\", ",">> ELSE <<s[i]>>) \o EscapeCommasFrom(s, i + 1)

EscapeCommas(s) == EscapeCommasFrom(s, 1)

\* str(n) of a natural number
RECURSIVE Decimal(_)
Decimal(n) ==
    IF n < 10 THEN <<DigitChars[n + 1]>>
    ELSE Decimal(n \div 10) \o <<DigitChars[(n % 10) + 1]>>

\* a number zero-padded to a width, as strftime pads %Y %m %d %H %M %S
RECURSIVE Padded(_, _)
Padded(n, width) ==
    IF width = 0 THEN <<>>
    ELSE Padded(n \div 10, width - 1) \o <<DigitChars[(n % 10) + 1]>>

-----------------------------------------------------------------------------
(* datetime *)

IsLeap(y) == (y % 4 = 0) /\ ((y % 100 # 0) \/ (y % 400 = 0))

DaysInMonth(y, m) ==
    IF m = 2 THEN (IF IsLeap(y) THEN 29 ELSE 28)
    ELSE IF m \in {4, 6, 9, 11} THEN 30 ELSE 31

RECURSIVE DaysBeforeMonth(_, _)
DaysBeforeMonth(y, m) ==
    IF m = 1 THEN 0 ELSE DaysBeforeMonth(y, m - 1) + DaysInMonth(y, m - 1)

\* date.toordinal(): 0001-01-01 is day 1
ToOrdinal(d) ==
    LET p == d.year - 1
    IN  p * 365 + (p \div 4) - (p \div 100) + (p \div 400)
        + DaysBeforeMonth(d.year, d.month) + d.day

\* datetime.weekday(): Monday is 0, Sunday is 6
Weekday(d) == (ToOrdinal(d) + 6) % 7

NextDay(d) ==
    IF d.day < DaysInMonth(d.year, d.month) THEN [d EXCEPT !.day = d.day + 1]
    ELSE IF d.month < 12 THEN [d EXCEPT !.month = d.month + 1, !.day = 1]
    ELSE [d EXCEPT !.year = d.year + 1, !.month = 1, !.day = 1]

\* d + timedelta(days=n): the calendar date moves, the time of day stays
RECURSIVE AddDays(_, _)
AddDays(d, n) ==
    IF n = 0 THEN d ELSE Bind(NextDay(d), LAMBDA next : AddDays(next, n - 1))

\* the order of datetime's comparison operators
DtKey(d) == <<d.year, d.month, d.day, d.hour, d.minute, d.second, d.microsecond>>

RECURSIVE TupleLess(_, _)
TupleLess(a, b) ==
    IF a = <<>> THEN FALSE
    ELSE IF Head(a) # Head(b) THEN Head(a) < Head(b)
    ELSE TupleLess(Tail(a), Tail(b))

DtLess(a, b) == TupleLess(DtKey(a), DtKey(b))

DtLeq(a, b) == a = b \/ DtLess(a, b)

\* datetime.replace(hour=, minute=, second=0, microsecond=0) checks the ranges
ReplaceInRange(hour, minute) == hour \in 0..23 /\ minute \in 0..59

ReplaceTime(d, hour, minute) ==
    [d EXCEPT !.hour = hour, !.minute = minute, !.second = 0, !.microsecond = 0]

\* strftime('%Y%m%dT%H%M%S')
format_date_to_calendar(d) ==
    Padded(d.year, 4) \o Padded(d.month, 2) \o Padded(d.day, 2) \o <<"T">>
    \o Padded(d.hour, 2) \o Padded(d.minute, 2) \o Padded(d.second, 2)

-----------------------------------------------------------------------------
(* get_next_occurrence_date *)

days_of_week ==
    << <<"s", "u", "n", "d", "a", "y">>,
       <<"m", "o", "n", "d", "a", "y">>,
       <<"t", "u", "e", "s", "d", "a", "y">>,
       <<"w", "e", "d", "n", "e", "s", "d", "a", "y">>,
       <<"t", "h", "u", "r", "s", "d", "a", "y">>,
       <<"f", "r", "i", "d", "a", "y">>,
       <<"s", "a", "t", "u", "r", "d", "a", "y">> >>

\* days_of_week.index(day.lower()) if day.lower() in days_of_week else -1
TargetDayIndex(day) ==
    IF \E i \in 1..7 : days_of_week[i] = Lower(day)
    THEN (CHOOSE i \in 1..7 : days_of_week[i] = Lower(day)) - 1
    ELSE -1

\* the try block: the start or the end field of the range, split on ":" and
\* unpacked into exactly two ints; IndexError and ValueError both give None
ParseClock(time, start) ==
    LET idx == IF start THEN 1 ELSE 2
    IN  Bind(Split(time, "-"), LAMBDA parts :
          IF idx > Len(parts) THEN [ok |-> FALSE, hour |-> 0, minute |-> 0]
          ELSE Bind(Split(parts[idx], ":"), LAMBDA fields :
            IF Len(fields) # 2 THEN [ok |-> FALSE, hour |-> 0, minute |-> 0]
            ELSE Bind(<<PyInt(fields[1]), PyInt(fields[2])>>, LAMBDA ints :
              IF ints[1].ok /\ ints[2].ok
              THEN [ok |-> TRUE, hour |-> ints[1].val, minute |-> ints[2].val]
              ELSE [ok |-> FALSE, hour |-> 0, minute |-> 0])))

TodayIndexPythonFrame(clock) == Weekday(clock)

\* now.weekday() moved to the frame Sunday = 0 .. Saturday = 6
TodayIndex(clock) == (Weekday(clock) + 1) % 7

\* the forward day offset
DaysUntil(target_day_index, today_index) == (target_day_index - today_index + 7) % 7

AdjustedDiffInclusive(diff, hour, minute, clock) ==
    IF diff = 0 /\ DtLeq(ReplaceTime(clock, hour, minute), clock) THEN 7 ELSE diff

AdjustedDiffNoRoll(diff, hour, minute, clock) == diff

\* "if it's today and the time has already passed", move to next week
AdjustedDiff(diff, hour, minute, clock) ==
    IF diff = 0 /\ DtLess(ReplaceTime(clock, hour, minute), clock) THEN 7 ELSE diff

NoDate ==
    [year |-> 0, month |-> 0, day |-> 0, hour |-> 0, minute |-> 0,
     second |-> 0, microsecond |-> 0]

Outcome(kind, value) == [kind |-> kind, value |-> value]

\* The outcome of one call with the clock reading `clock`: a date-time
\* ("date"), None, or the exception that leaves the function.
get_next_occurrence_date(it, start, clock) ==
    IF "day" \notin DOMAIN it THEN Outcome("KeyError", NoDate)
    ELSE IF TargetDayIndex(it.day) = -1 THEN Outcome("None", NoDate)
    ELSE IF "time" \notin DOMAIN it THEN Outcome("KeyError", NoDate)
    ELSE Bind(ParseClock(it.time, start), LAMBDA parsed :
           LET diff == AdjustedDiff(DaysUntil(TargetDayIndex(it.day), TodayIndex(clock)),
                                    parsed.hour, parsed.minute, clock)
           IN  IF ~parsed.ok THEN Outcome("None", NoDate)
               ELSE IF ~ReplaceInRange(parsed.hour, parsed.minute)
                    THEN Outcome("ValueError", NoDate)
               ELSE Outcome("date",
                            ReplaceTime(AddDays(clock, diff), parsed.hour, parsed.minute)))

-----------------------------------------------------------------------------
(* The inputs the specifications draw from *)

BaseDate == [year |-> 2024, month |-> 2, day |-> 26]

ClockTimes ==
    { [hour |-> 0,  minute |-> 0,  second |-> 0,  microsecond |-> 0],
      [hour |-> 9,  minute |-> 59, second |-> 59, microsecond |-> 999999],
      [hour |-> 10, minute |-> 0,  second |-> 0,  microsecond |-> 0],
      [hour |-> 10, minute |-> 0,  second |-> 0,  microsecond |-> 1],
      [hour |-> 10, minute |-> 0,  second |-> 30, microsecond |-> 0],
      [hour |-> 10, minute |-> 30, second |-> 0,  microsecond |-> 0],
      [hour |-> 11, minute |-> 30, second |-> 0,  microsecond |-> 0],
      [hour |-> 23, minute |-> 59, second |-> 59, microsecond |-> 999999] }

At(date, t) ==
    [year |-> date.year, month |-> date.month, day |-> date.day, hour |-> t.hour,
     minute |-> t.minute, second |-> t.second, microsecond |-> t.microsecond]

Midnight == [hour |-> 0, minute |-> 0, second |-> 0, microsecond |-> 0]

Nows == { AddDays(At(BaseDate, t), k) : t \in ClockTimes, k \in 0..(NowDays - 1) }

DayNames ==
    { <<"M", "o", "n", "d", "a", "y">>,
      <<"M", "O", "N", "D", "A", "Y">>,
      <<"m", "o", "n", "d", "a", "y">>,
      <<"S", "u", "n", "d", "a", "y">>,
      <<"T", "u", "e", "s", "d", "a", "y">>,
      <<"W", "E", "D", "N", "E", "S", "D", "A", "Y">>,
      <<"T", "h", "u", "r", "s", "d", "a", "y">>,
      <<"f", "r", "i", "d", "a", "y">>,
      <<"S", "a", "T", "u", "R", "d", "A", "y">>,
      <<"F", "u", "n", "d", "a", "y">>,
      <<>> }

TimeTexts ==
    { <<"1", "0", ":", "0", "0", "-", "1", "1", ":", "3", "0">>,
      <<"0", "0", ":", "0", "0", "-", "2", "3", ":", "5", "9">>,
      <<"2", "3", ":", "5", "9", "-", "0", "0", ":", "0", "0">>,
      <<"0", "9", ":", "5", "9", "-", "1", "0", ":", "0", "0">>,
      <<"1", "0", "0", "0", "-", "1", "1", "3", "0">>,
      <<"1", "0", ":", "0", "0">>,
      <<"2", "5", ":", "0", "0", "-", "2", "6", ":", "0", "0">>,
      <<"1", "0", ":", "6", "0", "-", "1", "1", ":", "0", "0">>,
      <<"1", "0", ":", "0", "0", "-", "2", "4", ":", "0", "0">>,
      <<"9", ":", "0", "5", "-", "1", "0", ":", "3", "0">>,
      <<"a", "b", ":", "c", "d", "-", "e", "f", ":", "g", "h">>,
      <<"1", "0", ":", "0", "0", ":", "0", "0", "-", "1", "1", ":", "0", "0">>,
      <<" ", "1", "0", ":", "0", "0", " ", "-", " ", "1", "1", ":", "3", "0", " ">>,
      <<"1", "0", ":", "0", "0", "-">>,
      <<"x", "-", "2", "5", ":", "0", "0">>,
      <<>> }

ResolverItems ==
    { [day |-> d, time |-> t, subject |-> <<"A", "r", "t">>, location |-> <<>>] :
        d \in DayNames, t \in TimeTexts }
    \cup { [day |-> <<"M", "o", "n", "d", "a", "y">>, subject |-> <<"A", "r", "t">>],
           [time |-> <<"1", "0", ":", "0", "0", "-", "1", "1", ":", "3", "0">>] }

NotCalled == Outcome("not called", NoDate)

NoDocument == [kind |-> "not called", lines |-> <<>>]

NoSession ==
    [has_data |-> FALSE, timetable_data |-> <<>>, has_step |-> FALSE, current_step |-> 0]

NoResponse == [route |-> "none", status |-> 0, body |-> NoDocument]

-----------------------------------------------------------------------------
(* The resolver on its own: one call on a drawn entry, flag and clock *)

InitResolver ==
    /\ now \in Nows
    /\ utcnow = now
    /\ item \in ResolverItems
    /\ is_start \in BOOLEAN
    /\ occurrence = NotCalled
    /\ timetable_data = <<>>
    /\ ics = NoDocument
    /\ session = NoSession
    /\ response = NoResponse

Resolve ==
    /\ occurrence = NotCalled
    /\ occurrence' = get_next_occurrence_date(item, is_start, now)
    /\ UNCHANGED <<now, utcnow, item, is_start, timetable_data, ics, session, response>>

NextResolver == Resolve

SpecResolver == InitResolver /\ [][NextResolver]_vars

-----------------------------------------------------------------------------
(* generate_ics_content *)

(* The document is the sequence of its lines (each "\n" of the code ends    *)
(* one).  A line is the concatenation the code writes: a literal of the     *)
(* code is one token, interpolated text is spliced in character by          *)
(* character.                                                               *)

Header ==
    << <<"BEGIN:VCALENDAR">>,
       <<"VERSION:2.0">>,
       <<"PRODID:-//Timetable Organizer//EN">>,
       <<"CALSCALE:GREGORIAN">>,
       <<"X-WR-CALNAME:My University Timetable">> >>

Footer == << <<"END:VCALENDAR">> >>

day_map ==
    << << <<"m", "o", "n", "d", "a", "y">>, "MO" >>,
       << <<"t", "u", "e", "s", "d", "a", "y">>, "TU" >>,
       << <<"w", "e", "d", "n", "e", "s", "d", "a", "y">>, "WE" >>,
       << <<"t", "h", "u", "r", "s", "d", "a", "y">>, "TH" >>,
       << <<"f", "r", "i", "d", "a", "y">>, "FR" >>,
       << <<"s", "a", "t", "u", "r", "d", "a", "y">>, "SA" >>,
       << <<"s", "u", "n", "d", "a", "y">>, "SU" >> >>

\* day_map.get(day_key, '')
DayToIcs(day_key) ==
    IF \E i \in 1..7 : day_map[i][1] = day_key
    THEN day_map[CHOOSE i \in 1..7 : day_map[i][1] = day_key][2]
    ELSE ""

BothResolvedStartOnly(startDate, endDate) == startDate.kind = "date"

\* the negation of "if not startDate or not endDate: continue"
BothResolved(startDate, endDate) == startDate.kind = "date" /\ endDate.kind = "date"

UidLineNoIndex(dtStart, index, app_id) == <<"UID:">> \o dtStart \o <<"@">> \o app_id

\* f"UID:{dtStart}-{index}@{app_id}"
UidLine(dtStart, index, app_id) ==
    <<"UID:">> \o dtStart \o <<"-">> \o Decimal(index) \o <<"@">> \o app_id

SummaryTextRaw(subject) == subject

\* item['subject'].replace(',', r'\,')
SummaryText(subject) == EscapeCommas(subject)

\* item['location'].replace(',', r'\,') if item['location'] else ''
LocationText(location) == IF location # <<>> THEN EscapeCommas(location) ELSE <<>>

Lines(kind, lines) == [kind |-> kind, lines |-> lines]

\* One pass of the loop body for the entry at `index`: the lines it appends
\* ("lines"), nothing ("skip"), or the exception that leaves the loop.
EventLines(index, it, app_id, clock, dt_stamp_utc) ==
    IF "day" \notin DOMAIN it THEN Lines("KeyError", <<>>)
    ELSE IF DayToIcs(Lower(it.day)) = "" THEN Lines("skip", <<>>)
    ELSE Bind(<<get_next_occurrence_date(it, TRUE, clock),
                get_next_occurrence_date(it, FALSE, clock)>>, LAMBDA dates :
         LET startDate == dates[1]
             endDate   == dates[2]
             dtStart   == format_date_to_calendar(startDate.value)
             dtEnd     == format_date_to_calendar(endDate.value)
         IN  IF startDate.kind \in {"KeyError", "ValueError"} THEN Lines(startDate.kind, <<>>)
             ELSE IF endDate.kind \in {"KeyError", "ValueError"} THEN Lines(endDate.kind, <<>>)
             ELSE IF ~BothResolved(startDate, endDate) THEN Lines("skip", <<>>)
             ELSE IF "subject" \notin DOMAIN it \/ "location" \notin DOMAIN it
                  THEN Lines("KeyError", <<>>)
             ELSE Lines("lines",
                    << <<"BEGIN:VEVENT">>,
                       UidLine(dtStart, index, app_id),
                       <<"DTSTAMP:">> \o dt_stamp_utc,
                       <<"DTSTART:">> \o dtStart,
                       <<"DTEND:">> \o dtEnd,
                       <<"SUMMARY:">> \o SummaryText(it.subject) >>
                    \o (IF LocationText(it.location) # <<>>
                        THEN << <<"LOCATION:">> \o LocationText(it.location) >>
                        ELSE <<>>)
                    \o << <<"DESCRIPTION:Generated from Timetable Organizer. Automatically repeats weekly.">>,
                          <<"RRULE:FREQ=WEEKLY;BYDAY=", DayToIcs(Lower(it.day))>>,
                          <<"END:VEVENT">> >>))

\* the loop over enumerate(timetable_data), from position `index` on
RECURSIVE EventsFrom(_, _, _, _, _)
EventsFrom(data, index, app_id, clock, dt_stamp_utc) ==
    IF index >= Len(data) THEN Lines("lines", <<>>)
    ELSE Bind(EventLines(index, data[index + 1], app_id, clock, dt_stamp_utc), LAMBDA ev :
           IF ev.kind \notin {"lines", "skip"} THEN ev
           ELSE Bind(EventsFrom(data, index + 1, app_id, clock, dt_stamp_utc), LAMBDA rest :
                  IF rest.kind # "lines" THEN rest
                  ELSE Lines("lines", ev.lines \o rest.lines)))

\* The document ("document"), or the exception that leaves the function.
\* Every datetime.now() of one call reads the same clock value `clock`.
generate_ics_content(data, app_id, clock, utc) ==
    Bind(format_date_to_calendar(utc) \o <<"Z">>, LAMBDA dt_stamp_utc :
      Bind(EventsFrom(data, 0, app_id, clock, dt_stamp_utc), LAMBDA events :
        IF events.kind # "lines" THEN Lines(events.kind, <<>>)
        ELSE Lines("document", Header \o events.lines \o Footer)))

\* app_id = "flask-timetable-pro"
AppId == <<"flask-timetable-pro">>

-----------------------------------------------------------------------------
(* The generator on its own: one call on a drawn list and clock *)

GenEntries ==
    { [day |-> <<"M", "o", "n", "d", "a", "y">>,
       time |-> <<"1", "0", ":", "0", "0", "-", "1", "1", ":", "3", "0">>,
       subject |-> <<"M", ",", "A">>, location |-> <<"R", "1">>],
      [day |-> <<"F", "u", "n", "d", "a", "y">>,
       time |-> <<"2", "5", ":", "0", "0", "-", "2", "6", ":", "0", "0">>,
       subject |-> <<"A", "r", "t">>, location |-> <<>>],
      [day |-> <<"m", "o", "n", "d", "a", "y">>,
       time |-> <<"1", "0", "0", "0", "-", "1", "1", "3", "0">>,
       subject |-> <<"B", "i", "o">>, location |-> <<"A", ",", "B">>],
      [day |-> <<"T", "u", "e", "s", "d", "a", "y">>,
       time |-> <<"0", "9", ":", "5", "9", "-", "1", "0", ":", "0", "0">>,
       subject |-> <<"A", "r", "t">>, location |-> <<>>],
      [day |-> <<"W", "E", "D", "N", "E", "S", "D", "A", "Y">>,
       time |-> <<"2", "5", ":", "0", "0", "-", "2", "6", ":", "0", "0">>,
       subject |-> <<"B", "i", "o">>, location |-> <<"R", "1">>],
      [day |-> <<"f", "r", "i", "d", "a", "y">>,
       time |-> <<"1", "0", ":", "0", "0">>,
       subject |-> <<"L", "a", "w">>, location |-> <<"R", "1">>],
      [day |-> <<"S", "u", "n", "d", "a", "y">>,
       time |-> <<"2", "3", ":", "5", "9", "-", "0", "0", ":", "0", "0">>,
       subject |-> <<",">>, location |-> <<",", ",">>],
      [day |-> <<"M", "O", "N", "D", "A", "Y">>,
       time |-> <<"x", "-", "2", "5", ":", "0", "0">>,
       subject |-> <<"B", "i", "o">>, location |-> <<>>] }

ListsOf(S, n) == UNION { [1..k -> S] : k \in 0..n }

GenClockTimes ==
    { [hour |-> 10, minute |-> 0,  second |-> 0,  microsecond |-> 0],
      [hour |-> 10, minute |-> 30, second |-> 0,  microsecond |-> 0],
      [hour |-> 23, minute |-> 59, second |-> 59, microsecond |-> 999999] }

GenNows == { AddDays(At(BaseDate, t), k) : t \in GenClockTimes, k \in 0..(NowDays - 1) }

\* the same instant read in UTC, for a server on UTC and one five hours behind
PlusHours(d, h) ==
    IF d.hour + h < 24 THEN [d EXCEPT !.hour = d.hour + h]
    ELSE [NextDay(d) EXCEPT !.hour = d.hour + h - 24]

UtcReadings(clock) == { clock, PlusHours(clock, 5) }

InitGenerator ==
    /\ now \in GenNows
    /\ utcnow \in UtcReadings(now)
    /\ item = CHOOSE it \in ResolverItems : TRUE
    /\ is_start = TRUE
    /\ occurrence = NotCalled
    /\ timetable_data \in ListsOf(GenEntries, MaxEntries)
    /\ ics = NoDocument
    /\ session = NoSession
    /\ response = NoResponse

Generate ==
    /\ ics = NoDocument
    /\ ics' = generate_ics_content(timetable_data, AppId, now, utcnow)
    /\ UNCHANGED <<now, utcnow, item, is_start, occurrence, timetable_data, session, response>>

NextGenerator == Generate

SpecGenerator == InitGenerator /\ [][NextGenerator]_vars

-----------------------------------------------------------------------------
(* The Flask routes on the session of one visitor *)

\* TIMETABLE_ENTRY_SCHEMA.keys()
TIMETABLE_ENTRY_SCHEMA == {"day", "time", "subject", "location"}

Answer(route, status, body) == [route |-> route, status |-> status, body |-> body]

Reply(sess, answer) == [session |-> sess, response |-> answer]

\* '/': the two keys are created when absent, the page is rendered
index(sess) ==
    Reply([has_data       |-> TRUE,
           timetable_data |-> IF sess.has_data THEN sess.timetable_data ELSE <<>>,
           has_step       |-> TRUE,
           current_step   |-> IF sess.has_step THEN sess.current_step ELSE 1],
          Answer("index", 200, NoDocument))

\* the early returns of upload_and_analyze, in the order the code reaches them,
\* with the status each answers
UploadFailures ==
    << <<"no file part", 400>>,
       <<"no selected file", 400>>,
       <<"file over 4MB", 400>>,
       <<"not an image or PDF", 400>>,
       <<"file reading/conversion error", 500>>,
       <<"GROQ_API_KEY not configured", 500>>,
       <<"provider HTTP error", 500>>,
       <<"empty or non-JSON content", 500>>,
       <<"JSON scalar", 200>> >>

\* valid_data, from the shape of the JSON the provider's text holds: the value
\* of "timetable" of an object, a list itself, any other object wrapped in a list
ValidData(upload) ==
    IF upload.shape \in {"timetable object", "list"} THEN upload.entries
    ELSE <<upload.entries[1]>>

\* '/api/upload_and_analyze': upload.fails_at is 0 when the request passes every
\* check and the provider answers with JSON, else the early return it ends at
upload_and_analyze(sess, upload) ==
    IF upload.fails_at # 0
    THEN Reply(sess, Answer("upload_and_analyze", UploadFailures[upload.fails_at][2], NoDocument))
    ELSE IF ValidData(upload) = <<>>
    THEN Reply(sess, Answer("upload_and_analyze", 200, NoDocument))
    ELSE Reply([has_data |-> TRUE, timetable_data |-> ValidData(upload),
                has_step |-> TRUE, current_step |-> 2],
               Answer("upload_and_analyze", 200, NoDocument))

\* all(k in entry for k in TIMETABLE_ENTRY_SCHEMA.keys()), for every entry
AllRequiredKeys(new_data) ==
    \A i \in 1..Len(new_data) : TIMETABLE_ENTRY_SCHEMA \subseteq DOMAIN new_data[i]

\* '/api/update_data': the body's timetableData defaults to [], currentStep to 2;
\* a body that is no JSON object has no .get and ends in Flask's 500
update_data(sess, body) ==
    LET new_data == IF body.has_data THEN body.timetableData ELSE <<>>
        new_step == IF body.has_step THEN body.currentStep ELSE 2
    IN  IF ~body.is_object
        THEN Reply(sess, Answer("update_data", 500, NoDocument))
        ELSE IF body.has_data /\ ~body.data_is_list
        THEN Reply(sess, Answer("update_data", 400, NoDocument))
        ELSE IF ~AllRequiredKeys(new_data)
        THEN Reply(sess, Answer("update_data", 400, NoDocument))
        ELSE Reply([has_data |-> TRUE, timetable_data |-> new_data,
                    has_step |-> TRUE, current_step |-> new_step],
                   Answer("update_data", 200, NoDocument))

\* '/download_ics' and '/open_ics': 400 for no or empty data; else the document,
\* or Flask's 500 when generate_ics_content raises
serve_ics(route, sess, clock, utc) ==
    LET data == IF sess.has_data THEN sess.timetable_data ELSE <<>>
    IN  IF data = <<>> THEN Reply(sess, Answer(route, 400, NoDocument))
        ELSE Bind(generate_ics_content(data, AppId, clock, utc), LAMBDA doc :
               Reply(sess, Answer(route, IF doc.kind = "document" THEN 200 ELSE 500, doc)))

download_ics(sess, clock, utc) == serve_ics("download_ics", sess, clock, utc)

open_ics(sess, clock, utc) == serve_ics("open_ics", sess, clock, utc)

-----------------------------------------------------------------------------
(* The requests the session specification draws from *)

SessionEntries ==
    { [day |-> <<"M", "o", "n", "d", "a", "y">>,
       time |-> <<"1", "0", ":", "0", "0", "-", "1", "1", ":", "3", "0">>,
       subject |-> <<"M", ",", "A">>, location |-> <<"R", "1">>],
      [day |-> <<"F", "u", "n", "d", "a", "y">>,
       time |-> <<"1", "0", ":", "0", "0", "-", "1", "1", ":", "3", "0">>,
       subject |-> <<"A", "r", "t">>, location |-> <<>>],
      [day |-> <<"T", "u", "e", "s", "d", "a", "y">>,
       time |-> <<"0", "9", ":", "5", "9", "-", "1", "0", ":", "0", "0">>,
       subject |-> <<"B", "i", "o">>],
      [subject |-> <<"A", "r", "t">>] }

Payloads == ListsOf(SessionEntries, MaxPayload)

Uploads ==
    { [fails_at |-> f, shape |-> "list", entries |-> <<>>] : f \in 1..Len(UploadFailures) }
    \cup { [fails_at |-> 0, shape |-> sh, entries |-> es] :
             sh \in {"timetable object", "list"}, es \in Payloads }
    \cup { [fails_at |-> 0, shape |-> "other object", entries |-> <<e>>] :
             e \in SessionEntries }

StepValues == {1, 2, 3}

UpdateBodies ==
    { [is_object |-> TRUE, has_data |-> TRUE, data_is_list |-> TRUE, timetableData |-> es,
       has_step |-> hs, currentStep |-> st] :
         es \in Payloads, hs \in BOOLEAN, st \in StepValues }
    \cup { [is_object |-> ob, has_data |-> hd, data_is_list |-> FALSE, timetableData |-> <<>>,
            has_step |-> TRUE, currentStep |-> st] :
             ob \in BOOLEAN, hd \in BOOLEAN, st \in StepValues }

\* the moments the visitor's requests arrive at, in order
SessionClock ==
    << At(BaseDate, [hour |-> 9, minute |-> 59, second |-> 59, microsecond |-> 999999]),
       At(BaseDate, [hour |-> 10, minute |-> 30, second |-> 0, microsecond |-> 0]),
       At(NextDay(At(BaseDate, Midnight)),
          [hour |-> 10, minute |-> 0, second |-> 0, microsecond |-> 0]) >>

Init ==
    /\ now = SessionClock[1]
    /\ utcnow = now
    /\ item = CHOOSE it \in ResolverItems : TRUE
    /\ is_start = TRUE
    /\ occurrence = NotCalled
    /\ timetable_data = <<>>
    /\ ics = NoDocument
    /\ session = NoSession
    /\ response = NoResponse

idle == <<item, is_start, occurrence, timetable_data, ics>>

Index ==
    /\ session' = index(session).session
    /\ response' = index(session).response
    /\ UNCHANGED <<now, utcnow, idle>>

UploadAndAnalyze ==
    /\ \E upload \in Uploads :
          /\ session' = upload_and_analyze(session, upload).session
          /\ response' = upload_and_analyze(session, upload).response
    /\ UNCHANGED <<now, utcnow, idle>>

UpdateData ==
    /\ \E body \in UpdateBodies :
          /\ session' = update_data(session, body).session
          /\ response' = update_data(session, body).response
    /\ UNCHANGED <<now, utcnow, idle>>

DownloadIcs ==
    /\ session' = download_ics(session, now, utcnow).session
    /\ response' = download_ics(session, now, utcnow).response
    /\ UNCHANGED <<now, utcnow, idle>>

OpenIcs ==
    /\ session' = open_ics(session, now, utcnow).session
    /\ response' = open_ics(session, now, utcnow).response
    /\ UNCHANGED <<now, utcnow, idle>>

\* time passes between two requests
Tick ==
    /\ \E i \in 1..(Len(SessionClock) - 1) :
          now = SessionClock[i] /\ now' = SessionClock[i + 1] /\ utcnow' = SessionClock[i + 1]
    /\ UNCHANGED <<session, response, idle>>

Next == Index \/ UploadAndAnalyze \/ UpdateData \/ DownloadIcs \/ OpenIcs \/ Tick

Spec == Init /\ [][Next]_vars

-----------------------------------------------------------------------------
(* What the claims speak of *)

\* the weekday names, Monday first as datetime.weekday() counts them
WeekdayNames ==
    << <<"m", "o", "n", "d", "a", "y">>,
       <<"t", "u", "e", "s", "d", "a", "y">>,
       <<"w", "e", "d", "n", "e", "s", "d", "a", "y">>,
       <<"t", "h", "u", "r", "s", "d", "a", "y">>,
       <<"f", "r", "i", "d", "a", "y">>,
       <<"s", "a", "t", "u", "r", "d", "a", "y">>,
       <<"s", "u", "n", "d", "a", "y">> >>

\* a weekday name in any letter case
RecognizedDay(day) == \E i \in 1..7 : WeekdayNames[i] = Lower(day)

NamedWeekday(day) == (CHOOSE i \in 1..7 : WeekdayNames[i] = Lower(day)) - 1

TwoDigits(t, i) == 10 * DigitVal(t[i]) + DigitVal(t[i + 1])

\* "HH:MM-HH:MM" with hours 0-23 and minutes 0-59
WellFormedRange(t) ==
    /\ Len(t) = 11
    /\ t[3] = ":" /\ t[6] = "-" /\ t[9] = ":"
    /\ \A i \in {1, 2, 4, 5, 7, 8, 10, 11} : IsDigit(t[i])
    /\ TwoDigits(t, 1) <= 23 /\ TwoDigits(t, 7) <= 23
    /\ TwoDigits(t, 4) <= 59 /\ TwoDigits(t, 10) <= 59

StartClock(t) == [hour |-> TwoDigits(t, 1), minute |-> TwoDigits(t, 4)]

EndClock(t) == [hour |-> TwoDigits(t, 7), minute |-> TwoDigits(t, 10)]

SelectedClock(t, start) == IF start THEN StartClock(t) ELSE EndClock(t)

ValidEntry(it) ==
    /\ TIMETABLE_ENTRY_SCHEMA \subseteq DOMAIN it
    /\ RecognizedDay(it.day)
    /\ WellFormedRange(it.time)

\* get_next_occurrence_date was called on a valid entry
ResolvedValid == occurrence # NotCalled /\ ValidEntry(item)

\* the selected clock time on the calendar date of `clock` plus k days
Candidate(clock, k) ==
    ReplaceTime(AddDays(clock, k), SelectedClock(item.time, is_start).hour,
                SelectedClock(item.time, is_start).minute)

-----------------------------------------------------------------------------
(* C1: for a valid entry and any current moment, get_next_occurrence_date   *)
(* returns a date-time on the entry's weekday whose time of day is the      *)
(* selected clock time (start or end), seconds and microseconds zero.       *)
C1_WeekdayAndClock ==
    ResolvedValid =>
        /\ occurrence.kind = "date"
        /\ Weekday(occurrence.value) = NamedWeekday(item.day)
        /\ occurrence.value.hour = SelectedClock(item.time, is_start).hour
        /\ occurrence.value.minute = SelectedClock(item.time, is_start).minute
        /\ occurrence.value.second = 0
        /\ occurrence.value.microsecond = 0

\* an end time resolved for an upper-case day name from another weekday
C1_Witness ==
    /\ ResolvedValid
    /\ ~is_start
    /\ item.day = <<"W", "E", "D", "N", "E", "S", "D", "A", "Y">>
    /\ Weekday(now) = 5
    /\ occurrence.kind = "date"
    /\ Weekday(occurrence.value) = 2

\* now is exactly the entry's weekday and selected clock time
AtBoundary ==
    /\ ResolvedValid
    /\ Weekday(now) = NamedWeekday(item.day)
    /\ now = Candidate(now, 0)

\* now is on the entry's weekday, later than the selected clock time
PastBoundary ==
    /\ ResolvedValid
    /\ Weekday(now) = NamedWeekday(item.day)
    /\ DtLess(Candidate(now, 0), now)

(* C2, as claimed: at exact equality the resolver treats the time as passed  *)
(* and returns the same clock time seven days after now.                     *)
C2_EqualCountsAsPassed ==
    AtBoundary => occurrence = Outcome("date", AddDays(now, 7))

(* C2, amended: at exact equality the time has not passed and the resolver   *)
(* returns the current moment itself; it moves to the following week only    *)
(* when now is strictly later than the selected clock time on that weekday.  *)
C2_EqualIsNotPassed ==
    /\ AtBoundary => occurrence = Outcome("date", now)
    /\ PastBoundary => occurrence = Outcome("date", Candidate(now, 7))

C2_Witness ==
    /\ AtBoundary
    /\ is_start
    /\ item.time = <<"1", "0", ":", "0", "0", "-", "1", "1", ":", "3", "0">>
    /\ occurrence = Outcome("date", now)

(* C6: for a valid entry the resolved date-time is the soonest occurrence   *)
(* of the weekday and clock time that is not before now: it lies between    *)
(* now and now + 7 days, and no matching occurrence from now on is earlier. *)
C6_SoonestNotPast ==
    ResolvedValid =>
        /\ occurrence.kind = "date"
        /\ DtLeq(now, occurrence.value)
        /\ DtLeq(occurrence.value, AddDays(now, 7))
        /\ \A k \in 0..7 :
              (Weekday(Candidate(now, k)) = NamedWeekday(item.day)
                  /\ DtLeq(now, Candidate(now, k)))
              => DtLeq(occurrence.value, Candidate(now, k))

\* the clock time has passed today, the result is a week ahead
C6_Witness ==
    /\ PastBoundary
    /\ occurrence.kind = "date"
    /\ DtLess(AddDays(now, 6), occurrence.value)
    /\ DtLess(occurrence.value, AddDays(now, 7))

-----------------------------------------------------------------------------
(* Reading the document generate_ics_content returned *)

Returned == ics.kind = "document"

\* the k-th smallest member of a set of positions
Kth(S, k) == CHOOSE i \in S : Cardinality({j \in S : j < i}) = k - 1

Begins == {i \in 1..Len(ics.lines) : ics.lines[i] = <<"BEGIN:VEVENT">>}

Ends == {i \in 1..Len(ics.lines) : ics.lines[i] = <<"END:VEVENT">>}

BlockCount == Cardinality(Begins)

\* the lines of the k-th VEVENT block, BEGIN and END included
Block(k) == SubSeq(ics.lines, Kth(Begins, k), Kth(Ends, k))

\* the header, then the blocks one after the other, then the footer
WellFramed ==
    /\ Len(ics.lines) >= Len(Header) + 1
    /\ SubSeq(ics.lines, 1, Len(Header)) = Header
    /\ <<ics.lines[Len(ics.lines)]>> = Footer
    /\ Cardinality(Ends) = BlockCount
    /\ \A k \in 1..BlockCount :
          /\ Kth(Begins, k) < Kth(Ends, k)
          /\ Kth(Begins, k) = IF k = 1 THEN Len(Header) + 1 ELSE Kth(Ends, k - 1) + 1
    /\ Len(ics.lines) = IF BlockCount = 0 THEN Len(Header) + 1
                        ELSE Kth(Ends, BlockCount) + 1

\* the entry's weekday is recognized and both ends of its time range parse
Emittable(it) ==
    /\ RecognizedDay(it.day)
    /\ ParseClock(it.time, TRUE).ok
    /\ ParseClock(it.time, FALSE).ok

EmittedIdx == {i \in 1..Len(timetable_data) : Emittable(timetable_data[i])}

\* the input position (from 1) of the entry the k-th block stands for
Source(k) == Kth(EmittedIdx, k)

\* text with each backslash that stands right before a comma taken out
Unescaped(t) ==
    LET kept == {i \in 1..Len(t) : ~(t[i] = "\\" /\ i < Len(t) /\ t[i + 1] = ",")}
    IN  [k \in 1..Cardinality(kept) |-> t[Kth(kept, k)]]

CommasEscaped(t) == \A i \in 1..Len(t) : t[i] = "," => (i > 1 /\ t[i - 1] = "\\")

\* t is `original` with a backslash put before each comma and nothing else changed
EscapedFormOf(t, original) == CommasEscaped(t) /\ Unescaped(t) = original

LineTags(block) == [i \in 1..Len(block) |-> block[i][1]]

ExpectedTags(it) ==
    <<"BEGIN:VEVENT", "UID:", "DTSTAMP:", "DTSTART:", "DTEND:", "SUMMARY:">>
    \o (IF it.location = <<>> THEN <<>> ELSE <<"LOCATION:">>)
    \o <<"DESCRIPTION:Generated from Timetable Organizer. Automatically repeats weekly.",
         "RRULE:FREQ=WEEKLY;BYDAY=", "END:VEVENT">>

\* the first line of a block that starts with the tag, without the tag
Field(block, tag) == Tail(block[CHOOSE i \in 1..Len(block) : block[i][1] = tag])

HasField(block, tag) == \E i \in 1..Len(block) : block[i][1] = tag

\* the text occurs in the line
OccursIn(text, line) ==
    \E p \in 0..(Len(line) - Len(text)) : SubSeq(line, p + 1, p + Len(text)) = text

\* one block per emittable entry, in input order, each carrying its entry
BlocksAreTheEmittableEntries ==
    /\ WellFramed
    /\ BlockCount = Cardinality(EmittedIdx)
    /\ \A k \in 1..BlockCount :
          /\ LineTags(Block(k)) = ExpectedTags(timetable_data[Source(k)])
          /\ Unescaped(Field(Block(k), "SUMMARY:")) = timetable_data[Source(k)].subject

C4_AlwaysReturnsDocument == ics # NoDocument => Returned

(* C5: the UID keys of one document are pairwise distinct, also for equal   *)
(* entries: the block of the entry at input position i (from 0, skipped     *)
(* entries counted) has the key "{its DTSTART}-{i}@{identifier}".           *)
C5_DistinctIndexedKeys ==
    Returned =>
        /\ BlockCount = Cardinality(EmittedIdx)
        /\ \A k \in 1..BlockCount :
              /\ HasField(Block(k), "UID:") /\ HasField(Block(k), "DTSTART:")
              /\ Field(Block(k), "UID:")
                    = Field(Block(k), "DTSTART:") \o <<"-">> \o Decimal(Source(k) - 1)
                      \o <<"@">> \o AppId
        /\ \A j, k \in 1..BlockCount :
              j # k => Field(Block(j), "UID:") # Field(Block(k), "UID:")

\* the same entry twice, two events
C5_Witness ==
    /\ Returned
    /\ Len(timetable_data) = 2
    /\ timetable_data[1] = timetable_data[2]
    /\ BlockCount = 2
    /\ Field(Block(1), "UID:") # Field(Block(2), "UID:")

(* C7: in the SUMMARY and LOCATION lines every comma of the entry's text is *)
(* preceded by a backslash and the text is otherwise unchanged; the         *)
(* LOCATION line is left out exactly when the location is empty.            *)
C7_CommasEscaped ==
    Returned =>
        \A k \in 1..BlockCount :
            LET it == timetable_data[Source(k)]
            IN  /\ HasField(Block(k), "SUMMARY:")
                /\ EscapedFormOf(Field(Block(k), "SUMMARY:"), it.subject)
                /\ HasField(Block(k), "LOCATION:") <=> it.location # <<>>
                /\ HasField(Block(k), "LOCATION:")
                      => EscapedFormOf(Field(Block(k), "LOCATION:"), it.location)

\* an event with commas in subject and location beside one without location
C7_Witness ==
    /\ Returned
    /\ BlockCount = 2
    /\ OccursIn(<<",">>, timetable_data[Source(1)].subject)
    /\ OccursIn(<<",">>, timetable_data[Source(1)].location)
    /\ OccursIn(<<"\\", ",">>, Field(Block(1), "SUMMARY:"))
    /\ HasField(Block(1), "LOCATION:")
    /\ timetable_data[Source(2)].location = <<>>
    /\ ~HasField(Block(2), "LOCATION:")

\* the digits of a YYYYMMDDTHHMMSS timestamp, in order
StampKey(t) == [i \in 1..14 |-> DigitVal(t[IF i <= 8 THEN i ELSE i + 1])]

ClockLess(a, b) == a.hour < b.hour \/ (a.hour = b.hour /\ a.minute < b.minute)

(* C9, as claimed: for every emitted event whose end clock time is later    *)
(* than its start clock time, and every current moment, DTEND is later than *)
(* DTSTART and both lie on the same calendar date.                          *)
C9_EndAfterStartSameDate ==
    Returned =>
        \A k \in 1..BlockCount :
            LET it == timetable_data[Source(k)]
            IN  (WellFormedRange(it.time) /\ ClockLess(StartClock(it.time), EndClock(it.time)))
                => /\ TupleLess(StampKey(Field(Block(k), "DTSTART:")),
                                StampKey(Field(Block(k), "DTEND:")))
                   /\ SubSeq(Field(Block(k), "DTSTART:"), 1, 8)
                        = SubSeq(Field(Block(k), "DTEND:"), 1, 8)

(* C10, as claimed: after any sequence of requests every entry stored in    *)
(* the session has the four fields, so download_ics and open_ics answer 400 *)
(* or generate without failing on a missing field.                          *)
C10_StoredEntriesComplete ==
    /\ session.has_data =>
          \A i \in 1..Len(session.timetable_data) :
              TIMETABLE_ENTRY_SCHEMA \subseteq DOMAIN session.timetable_data[i]
    /\ response.route \in {"download_ics", "open_ics"} => response.body.kind # "KeyError"

====
